---------------------------- MODULE Spec2Model ----------------------------
(***************************************************************************)
(* Model of the invoice field extraction program (src/pypdf.py).           *)
(*                                                                         *)
(* A text is a sequence of Unicode code points, so that ord(char) > 127,   *)
(* \d, \s and case folding are computed on the characters themselves.      *)
(* Within the alphabet used here \d is 0-9, \s is {space, LF, U+3000} and  *)
(* re.IGNORECASE folds the ASCII letters.                                  *)
(* An optional value (a Python value or None) is a sequence of length at   *)
(* most one: None is << >> and a value v is << v >>.                       *)
(***************************************************************************)
EXTENDS Integers, Sequences, FiniteSets, TLC

VARIABLES
    text,        \* the argument of the extractor under check
    ret,         \* what the extractor returned
    branch,      \* the return statement the extractor left through
    pc,          \* control position of the running function
    files,       \* os.listdir(document_dir), in listing order
    dir_exists,  \* os.path.exists(document_dir)
    idx,         \* position of traverse_pdf_files' for loop in files
    pdf_data,    \* traverse_pdf_files' local result list
    processed,   \* filenames extract_invoice_data was called with, in order
    exc,         \* the exception in flight or caught by main (None: << >>)
    excel,       \* the rows saved by write_to_excel (None: nothing saved)
    console      \* the messages printed, in order

vars == <<text, ret, branch, pc, files, dir_exists, idx, pdf_data,
          processed, exc, excel, console>>

batchVars == <<files, dir_exists, idx, pdf_data, processed, exc, excel, console>>

-----------------------------------------------------------------------------
(* Characters *)

CH_LF == 10
CH_SPACE == 32
CH_IDEOSPACE == 12288
CH_STAR == 42
CH_DOT == 46
CH_COLON == 58
CH_FWCOLON == 65306
CH_YEN == 165
CH_FWYEN == 65509
CH_NIAN == 24180
CH_YUE == 26376
CH_RI == 26085
CH_ZERO == 48
CH_NINE == 57
CH_UPPER_A == 65
CH_UPPER_Z == 90
CaseOffset == 32
AsciiMax == 127

None == << >>
Some(v) == << v >>

IsDigit(c) == c >= CH_ZERO /\ c <= CH_NINE

IsSpace(c) == c \in {CH_SPACE, CH_LF, CH_IDEOSPACE}

Lower(c) == IF c >= CH_UPPER_A /\ c <= CH_UPPER_Z THEN c + CaseOffset ELSE c

Slice(t, a, b) == IF a > b THEN << >> ELSE SubSeq(t, a, b)

RECURSIVE Rep(_, _)
Rep(s, n) == IF n <= 0 THEN << >> ELSE s \o Rep(s, n - 1)

\* The first position >= p of t that holds no whitespace: where a greedy \s*
\* started at p ends.
RECURSIVE SkipWs(_, _)
SkipWs(t, p) ==
    IF p <= Len(t) /\ IsSpace(t[p]) THEN SkipWs(t, p + 1) ELSE p

DigitsAt(t, p, n) ==
    /\ p + n - 1 <= Len(t)
    /\ \A k \in 0 .. (n - 1) : IsDigit(t[p + k])

LitAt(t, p, c) == p <= Len(t) /\ t[p] = c

-----------------------------------------------------------------------------
(* The pattern of extraction_issue_date *)

DayDigitsMax == 2
YearDigits == 4

\* The pattern (\d{4})\s*年\s*(\d{1,2})\s*月\s*(\d{1,2})\s*日 at p with the
\* two \d{1,2} taking nm and nd digits: the groups, or None.
DateGroupsAt(t, p, nm, nd) ==
    LET a == SkipWs(t, p + YearDigits)
        b == SkipWs(t, a + 1)
        c == SkipWs(t, b + nm)
        d == SkipWs(t, c + 1)
        e == SkipWs(t, d + nd)
    IN  IF /\ DigitsAt(t, p, YearDigits) /\ LitAt(t, a, CH_NIAN)
           /\ DigitsAt(t, b, nm) /\ LitAt(t, c, CH_YUE)
           /\ DigitsAt(t, d, nd) /\ LitAt(t, e, CH_RI)
        THEN Some(<<Slice(t, p, p + YearDigits - 1),
                    Slice(t, b, b + nm - 1),
                    Slice(t, d, d + nd - 1)>>)
        ELSE None

\* The regex engine's order of attempts at one position: each \d{1,2} is
\* greedy, the later group is backtracked first.
DateMatchAt(t, p) ==
    LET try(nm, nd) == DateGroupsAt(t, p, nm, nd)
    IN  IF try(DayDigitsMax, DayDigitsMax) # None THEN try(DayDigitsMax, DayDigitsMax)
        ELSE IF try(DayDigitsMax, 1) # None THEN try(DayDigitsMax, 1)
        ELSE IF try(1, DayDigitsMax) # None THEN try(1, DayDigitsMax)
        ELSE try(1, 1)

-----------------------------------------------------------------------------
(* The patterns of extraction_invoice_number *)

ElectronicDigits == 20
NormalDigits == 8
ContextWindow == 20

LabelInvoiceNumber == <<21457, 31080, 21495, 30721>>   \* 发票号码
LabelNO == <<78, 79>>                                  \* NO
MarkerFapiao == <<21457, 31080>>                       \* 发票
MarkerInvoice == <<105, 110, 118, 111, 105, 99, 101>>  \* invoice
MarkerNODot == <<78, 79, 46>>                          \* NO.

\* A literal of a pattern compiled with re.IGNORECASE, at p.
MatchLitCI(t, p, lit) ==
    /\ p >= 1
    /\ p + Len(lit) - 1 <= Len(t)
    /\ \A k \in 1 .. Len(lit) : Lower(t[p + k - 1]) = Lower(lit[k])

\* (?<!\d)\d{n}(?!\d) at p: a match object (its start, end and group 0).
IsolatedRunAt(t, p, n) ==
    IF /\ DigitsAt(t, p, n)
       /\ (p = 1 \/ ~IsDigit(t[p - 1]))
       /\ (p + n > Len(t) \/ ~IsDigit(t[p + n]))
    THEN Some([start |-> p, end |-> p + n, group |-> Slice(t, p, p + n - 1)])
    ELSE None

ElectronicAt(t, p) == IsolatedRunAt(t, p, ElectronicDigits)

StandaloneAt(t, p) == IsolatedRunAt(t, p, NormalDigits)

\* Where a greedy [:：\s]* started at p ends.
RECURSIVE SkipSep(_, _)
SkipSep(t, p) ==
    IF p <= Len(t) /\ (IsSpace(t[p]) \/ t[p] \in {CH_COLON, CH_FWCOLON})
    THEN SkipSep(t, p + 1) ELSE p

\* \s*[:：\s]*(\d{8}) at q, of a match that started at p: group is group 1.
NormalRest(t, p, q) ==
    LET r == SkipSep(t, SkipWs(t, q))
    IN  IF DigitsAt(t, r, NormalDigits)
        THEN Some([start |-> p, end |-> r + NormalDigits,
                   group |-> Slice(t, r, r + NormalDigits - 1)])
        ELSE None

\* (?:发票号码|NO\.?)\s*[:：\s]*(\d{8}) at p: the alternatives in order, the
\* optional period taken first and given back on failure.
NormalAt(t, p) ==
    IF MatchLitCI(t, p, LabelInvoiceNumber)
       /\ NormalRest(t, p, p + Len(LabelInvoiceNumber)) # None
    THEN NormalRest(t, p, p + Len(LabelInvoiceNumber))
    ELSE IF MatchLitCI(t, p, LabelNO)
    THEN IF LitAt(t, p + Len(LabelNO), CH_DOT)
            /\ NormalRest(t, p, p + Len(LabelNO) + 1) # None
         THEN NormalRest(t, p, p + Len(LabelNO) + 1)
         ELSE NormalRest(t, p, p + Len(LabelNO))
    ELSE None

\* 发票|invoice|NO\. at q, re.IGNORECASE.
ContextMarkerAt(c, q) ==
    IF \/ MatchLitCI(c, q, MarkerFapiao)
       \/ MatchLitCI(c, q, MarkerInvoice)
       \/ MatchLitCI(c, q, MarkerNODot)
    THEN Some(q) ELSE None

-----------------------------------------------------------------------------
(* re.search *)

\* The compiled pattern at position p: a match or None.
PatternAt(pattern, t, p) ==
    CASE pattern = "issue_date" -> DateMatchAt(t, p)
      [] pattern = "electronic" -> ElectronicAt(t, p)
      [] pattern = "normal" -> NormalAt(t, p)
      [] pattern = "standalone" -> StandaloneAt(t, p)
      [] pattern = "context" -> ContextMarkerAt(t, p)

\* The match at the leftmost position >= p where the pattern gives one.
RECURSIVE SearchFrom(_, _, _)
SearchFrom(pattern, t, p) ==
    IF p > Len(t) THEN None
    ELSE IF PatternAt(pattern, t, p) # None THEN PatternAt(pattern, t, p)
    ELSE SearchFrom(pattern, t, p + 1)

-----------------------------------------------------------------------------
(* extraction_issue_date *)

FormatDate(g) == g[1] \o <<CH_NIAN>> \o g[2] \o <<CH_YUE>> \o g[3] \o <<CH_RI>>

\* extraction_issue_date with a one-digit day padded to two digits.
DateMutLastGroupPadded(t) ==
    LET match == SearchFrom("issue_date", t, 1)
    IN  IF match # None
        THEN Some(match[1][1] \o <<CH_NIAN>> \o match[1][2] \o <<CH_YUE>>
                  \o (IF Len(match[1][3]) = 1 THEN <<CH_ZERO>> ELSE << >>)
                  \o match[1][3] \o <<CH_RI>>)
        ELSE None

extraction_issue_date(t) ==
    LET match == SearchFrom("issue_date", t, 1)
    IN  IF match # None THEN Some(FormatDate(match[1])) ELSE None

-----------------------------------------------------------------------------
(* extraction_invoice_number *)

Max(a, b) == IF a >= b THEN a ELSE b
Min(a, b) == IF a <= b THEN a ELSE b

\* ContextOf with the window's end counted from match.start().
ContextOfMutFromStart(t, m) ==
    Slice(t, Max(0, (m.start - 1) - ContextWindow) + 1,
             Min(Len(t), (m.start - 1) + ContextWindow))

\* text[max(0, match.start() - 20) : min(len(text), match.end() + 20)], the
\* match object's start and end being 1-based here, end exclusive.
ContextOf(t, m) ==
    Slice(t, Max(0, (m.start - 1) - ContextWindow) + 1,
             Min(Len(t), (m.end - 1) + ContextWindow))

\* InvoiceNumberResult with the labeled pattern tried before the 20-digit one.
InvoiceNumberResultMutNormalFirst(t) ==
    LET m1 == SearchFrom("electronic", t, 1)
        m2 == SearchFrom("normal", t, 1)
        m3 == SearchFrom("standalone", t, 1)
    IN  IF m2 # None THEN [ret |-> Some(m2[1].group), branch |-> "normal"]
        ELSE IF m1 # None THEN [ret |-> Some(m1[1].group), branch |-> "electronic"]
        ELSE IF m3 # None
                /\ SearchFrom("context", ContextOf(t, m3[1]), 1) # None
        THEN [ret |-> Some(m3[1].group), branch |-> "standalone"]
        ELSE [ret |-> None, branch |-> "none"]

\* The function's result and the return statement it left through.
InvoiceNumberResult(t) ==
    LET m1 == SearchFrom("electronic", t, 1)
        m2 == SearchFrom("normal", t, 1)
        m3 == SearchFrom("standalone", t, 1)
    IN  IF m1 # None THEN [ret |-> Some(m1[1].group), branch |-> "electronic"]
        ELSE IF m2 # None THEN [ret |-> Some(m2[1].group), branch |-> "normal"]
        ELSE IF m3 # None
                /\ SearchFrom("context", ContextOf(t, m3[1]), 1) # None
        THEN [ret |-> Some(m3[1].group), branch |-> "standalone"]
        ELSE [ret |-> None, branch |-> "none"]

extraction_invoice_number(t) == InvoiceNumberResult(t).ret

-----------------------------------------------------------------------------
(* extraction_project_name *)

WidthThreshold == 22

\* text.split("\n")
RECURSIVE SplitFrom(_, _, _)
SplitFrom(t, p, cur) ==
    IF p > Len(t) THEN <<cur>>
    ELSE IF t[p] = CH_LF THEN <<cur>> \o SplitFrom(t, p + 1, << >>)
    ELSE SplitFrom(t, p + 1, Append(cur, t[p]))

Split(t) == SplitFrom(t, 1, << >>)

\* line.strip()
RECURSIVE LStrip(_)
LStrip(l) == IF l # << >> /\ IsSpace(Head(l)) THEN LStrip(Tail(l)) ELSE l

RECURSIVE RStrip(_)
RStrip(l) ==
    IF l # << >> /\ IsSpace(l[Len(l)]) THEN RStrip(Slice(l, 1, Len(l) - 1)) ELSE l

Strip(l) == RStrip(LStrip(l))

CharWidth(c) == IF c > AsciiMax THEN 2 ELSE 1

RECURSIVE calculate_width(_)
calculate_width(line) ==
    IF line = << >> THEN 0
    ELSE CharWidth(Head(line)) + calculate_width(Tail(line))

StartsWith(line, c) == line # << >> /\ Head(line) = c

\* line.startswith(("*", "¥")) of line 94: the second character is U+00A5.
SectionStop(line) == StartsWith(line, CH_STAR) \/ StartsWith(line, CH_YEN)

\* TooShort with <= for <.
TooShortMutLE(w) == w <= WidthThreshold

TooShort(w) == w < WidthThreshold

\* The for loop from lines[i] on, with in_project_section and
\* project_name_parts as they stand; the parts when the loop ends or breaks.
RECURSIVE ProjectLoop(_, _, _, _)
ProjectLoop(lines, i, in_project_section, parts) ==
    IF i > Len(lines) THEN parts
    ELSE LET line == Strip(lines[i])
             line_width == calculate_width(line)
         IN  IF ~in_project_section
             THEN IF StartsWith(line, CH_STAR)
                  THEN ProjectLoop(lines, i + 1, TRUE, Append(parts, line))
                  ELSE ProjectLoop(lines, i + 1, FALSE, parts)
             ELSE IF SectionStop(line) THEN parts
             ELSE IF TooShort(line_width) THEN parts
             ELSE ProjectLoop(lines, i + 1, TRUE, Append(parts, line))

\* " ".join(parts)
RECURSIVE Join(_)
Join(parts) ==
    IF parts = << >> THEN << >>
    ELSE IF Len(parts) = 1 THEN parts[1]
    ELSE parts[1] \o <<CH_SPACE>> \o Join(Tail(parts))

extraction_project_name(t) == Join(ProjectLoop(Split(t), 1, FALSE, << >>))

-----------------------------------------------------------------------------
(* extraction_amount *)

FractionDigits == 2

\* Where a greedy \d+ started at p ends (p itself when t[p] is no digit).
RECURSIVE SkipDigits(_, _)
SkipDigits(t, p) ==
    IF p <= Len(t) /\ IsDigit(t[p]) THEN SkipDigits(t, p + 1) ELSE p

\* [¥￥]\s*(\d+\.\d{2}) at p: the span of group 1 and the end of the match.
\* \d+ is tried from its longest run down to one digit.
RECURSIVE AmountTail(_, _, _)
AmountTail(t, q, r) ==
    IF r <= q THEN None
    ELSE IF LitAt(t, r, CH_DOT) /\ DigitsAt(t, r + 1, FractionDigits)
    THEN Some([from |-> q, to |-> r + FractionDigits, end |-> r + FractionDigits + 1])
    ELSE AmountTail(t, q, r - 1)

AmountAt(t, p) ==
    IF p <= Len(t) /\ t[p] \in {CH_YEN, CH_FWYEN}
    THEN LET q == SkipWs(t, p + 1) IN AmountTail(t, q, SkipDigits(t, q))
    ELSE None

\* re.findall: the group of every match, left to right, each search starting
\* where the match before it ended.
RECURSIVE FindAllAmounts(_, _)
FindAllAmounts(t, p) ==
    IF p > Len(t) THEN << >>
    ELSE IF AmountAt(t, p) # None
    THEN <<Slice(t, AmountAt(t, p)[1].from, AmountAt(t, p)[1].to)>>
         \o FindAllAmounts(t, AmountAt(t, p)[1].end)
    ELSE FindAllAmounts(t, p + 1)

RECURSIVE DigitsValue(_)
DigitsValue(ds) ==
    IF ds = << >> THEN 0
    ELSE 10 * DigitsValue(Slice(ds, 1, Len(ds) - 1)) + (ds[Len(ds)] - CH_ZERO)

\* float(s) of a string \d+\.\d{2}, as a number of hundredths: leading zeros
\* and the textual form are gone.
ToFloat(s) ==
    100 * DigitsValue(Slice(s, 1, Len(s) - FractionDigits - 1))
    + DigitsValue(Slice(s, Len(s) - FractionDigits + 1, Len(s)))

\* AmountPick returning the last of several matches.
AmountPickMutLast(matches) ==
    IF matches = << >> THEN None
    ELSE IF Len(matches) = 1 THEN Some(ToFloat(matches[1]))
    ELSE Some(ToFloat(matches[Len(matches)]))

\* lines 118-132 on total_amount_matches; matches[2] is the third match and
\* raises IndexError when there are two.
AmountPick(matches) ==
    IF matches = << >> THEN None
    ELSE IF Len(matches) = 1 THEN Some(ToFloat(matches[1]))
    ELSE IF Len(matches) >= 3 THEN Some(ToFloat(matches[3]))
    ELSE None

extraction_amount(t) == AmountPick(FindAllAmounts(t, 1))

-----------------------------------------------------------------------------
(* Inputs *)

MaxWs == 1
MaxNumberSegs == 4
MaxLines == 4
MaxAmountSegs == 4

\* n digits, counting up from digit d.
DigitRun(n, d) == [k \in 1 .. n |-> CH_ZERO + ((d + k - 1) % 10)]

\* f[1] \o ... \o f[n]
RECURSIVE ConcatTo(_, _)
ConcatTo(f, n) == IF n = 0 THEN << >> ELSE ConcatTo(f, n - 1) \o f[n]

\* Every concatenation of at most n members of segs.
Concats(segs, n) ==
    UNION { { ConcatTo(f, k) : f \in [1 .. k -> segs] } : k \in 0 .. n }

\* Dates: prefix, year, month and day numerals from small sets, a whitespace
\* run of MaxWs characters at each of the five places of mask, a suffix.
DatePrefixes ==
    { << >>, <<120>>, <<49>>,
      DigitRun(4, 1) \o <<CH_NIAN, 55, CH_YUE, 56, CH_RI, 120>>,
      DigitRun(4, 1) \o <<CH_NIAN, 55, CH_YUE, 120>> }
DateYears == { DigitRun(4, 2), DigitRun(3, 2) }
DateMonths == { <<51>>, <<49, 51>>, <<49, 50, 51>>, << >> }
DateDays == { <<53>>, <<48, 53>>, <<49, 50, 53>> }
DateSuffixes ==
    { << >>, <<120>> \o DigitRun(4, 6) \o <<CH_NIAN, 50, CH_YUE, 50, CH_RI>> }
DateWs(n) == { Rep(<<CH_SPACE>>, n), Rep(<<CH_LF>>, n) }

DateText(pre, y, m, d, suf, ws, mask) ==
    LET w(i) == IF i \in mask THEN ws ELSE << >>
    IN  pre \o y \o w(1) \o <<CH_NIAN>> \o w(2) \o m \o w(3) \o <<CH_YUE>>
        \o w(4) \o d \o w(5) \o <<CH_RI>> \o suf

DateTexts(n) ==
    { DateText(pre, y, m, d, suf, ws, mask) :
        pre \in DatePrefixes, y \in DateYears, m \in DateMonths,
        d \in DateDays, suf \in DateSuffixes, ws \in DateWs(n),
        mask \in SUBSET (1 .. 5) }

\* Invoice numbers: runs of 8 and 20 digits, the labels (NO., no, and
\* 发票号码 with a colon and a space), the word Invoice, and fillers whose
\* lengths put that word just inside and just outside the context window.
NumberSegs ==
    { DigitRun(NormalDigits, 1), DigitRun(NormalDigits, 3),
      DigitRun(ElectronicDigits, 5),
      MarkerNODot, <<110, 111>>,
      LabelInvoiceNumber \o <<CH_FWCOLON, CH_SPACE>>,
      <<73, 110, 118, 111, 105, 99, 101>>,
      Rep(<<120>>, ContextWindow - Len(MarkerInvoice)),
      Rep(<<120>>, ContextWindow - Len(MarkerInvoice) + 1) }

NumberTexts(n) == Concats(NumberSegs, n)

\* Descriptions: at most MaxLines lines joined by line feeds.
\* A narrow and a wide line that start with '*' (the wide one after a
\* space), a line of 11 wide characters (width 22), one of width 21, a wide
\* line after each currency marker, and 21 letters between whitespace.
DescLines ==
    { <<CH_STAR, 97, 98>>,
      <<CH_SPACE, CH_STAR>> \o Rep(<<120>>, WidthThreshold - 1),
      Rep(<<20013>>, WidthThreshold \div 2),
      Rep(<<20013>>, WidthThreshold \div 2 - 1) \o <<120>>,
      <<CH_YEN>> \o Rep(<<120>>, WidthThreshold - 2),
      <<CH_FWYEN>> \o Rep(<<120>>, WidthThreshold - 2),
      <<CH_SPACE>> \o Rep(<<120>>, WidthThreshold - 1) \o <<CH_IDEOSPACE>> }

RECURSIVE JoinLines(_, _)
JoinLines(f, n) ==
    IF n = 0 THEN << >>
    ELSE IF n = 1 THEN f[1]
    ELSE JoinLines(f, n - 1) \o <<CH_LF>> \o f[n]

DescTexts(n) ==
    UNION { { JoinLines(f, k) : f \in [1 .. k -> DescLines] } : k \in 0 .. n }

\* Amounts: tagged amounts of different values and near misses.
AmountSegs ==
    { <<CH_YEN, 49, CH_DOT, 48, 48>>,
      <<CH_FWYEN, CH_SPACE, 50, CH_DOT, 53, 48>>,
      <<CH_YEN, CH_LF, 48, 57, CH_DOT, 57, 57, 57>>,
      <<CH_YEN, 51, CH_DOT, 53>>,
      <<52, CH_DOT, 48, 48>>,
      <<CH_FWYEN, 55, 55, CH_DOT, 48, 49, 120>>,
      <<CH_FWYEN>> }

AmountTexts(n) == Concats(AmountSegs, n)

-----------------------------------------------------------------------------
(* The extractors, each called on one text *)

BatchIdle ==
    /\ files = << >>
    /\ dir_exists = TRUE
    /\ idx = 0
    /\ pdf_data = << >>
    /\ processed = << >>
    /\ exc = None
    /\ excel = None
    /\ console = << >>

InitCall(texts) ==
    /\ text \in texts
    /\ ret = None
    /\ branch = "call"
    /\ pc = "call"
    /\ BatchIdle

InitDate == InitCall(DateTexts(MaxWs))
InitNumber == InitCall(NumberTexts(MaxNumberSegs))
InitDesc == InitCall(DescTexts(MaxLines))
InitAmount == InitCall(AmountTexts(MaxAmountSegs))

CallIssueDate ==
    /\ pc = "call"
    /\ ret' = extraction_issue_date(text)
    /\ branch' = IF ret' = None THEN "none" ELSE "match"
    /\ pc' = "done"
    /\ UNCHANGED <<text, batchVars>>

CallInvoiceNumber ==
    /\ pc = "call"
    /\ LET result == InvoiceNumberResult(text)
       IN  ret' = result.ret /\ branch' = result.branch
    /\ pc' = "done"
    /\ UNCHANGED <<text, batchVars>>

CallProjectName ==
    /\ pc = "call"
    /\ ret' = extraction_project_name(text)
    /\ branch' = "join"
    /\ pc' = "done"
    /\ UNCHANGED <<text, batchVars>>

CallAmount ==
    /\ pc = "call"
    /\ ret' = extraction_amount(text)
    /\ branch' = IF ret' = None THEN "none" ELSE "float"
    /\ pc' = "done"
    /\ UNCHANGED <<text, batchVars>>

SpecDate == InitDate /\ [][CallIssueDate]_vars
SpecNumber == InitNumber /\ [][CallInvoiceNumber]_vars
SpecDesc == InitDesc /\ [][CallProjectName]_vars
SpecAmount == InitAmount /\ [][CallAmount]_vars

-----------------------------------------------------------------------------
(* extract_invoice_data, traverse_pdf_files, write_to_excel, main *)

MaxFiles == 3

\* The first page's text of the documents that open.
SampleTexts ==
    { << >>,
      MarkerNODot \o DigitRun(NormalDigits, 1) \o <<CH_LF>>
        \o DigitRun(YearDigits, 2) \o <<CH_NIAN, 51, CH_YUE, 53, CH_RI, CH_LF>>
        \o <<CH_STAR, 97, 98, CH_LF>>
        \o <<CH_YEN, 49, CH_DOT, 48, 48>> }

\* What opening a listed file and reading its first page does: "ok", or the
\* exception it raises.
OpenOutcomes ==
    { "ok", "FileNotFoundError", "FileDataError", "ValueError", "PermissionError" }

Extensions == { ".pdf", ".PDF", ".txt" }

FileEntries ==
    { [ext |-> e, open |-> o, text |-> t] :
        e \in Extensions, o \in OpenOutcomes, t \in SampleTexts }

\* One entry per behaviour: a file that is not opened, or does not open, has
\* no text to tell apart.
Files ==
    { f \in FileEntries :
        /\ (f.ext # ".pdf" => f.open = "ok")
        /\ ((f.ext # ".pdf" \/ f.open # "ok") => f.text = << >>) }

Listings(m) == UNION { [1 .. n -> Files] : n \in 0 .. m }

\* The listing's i-th filename.
Filename(i) == <<i, files[i].ext>>

\* filename.endswith(".pdf")
IsPdf(i) == files[i].ext = ".pdf"

\* The dict of lines 165-170, its values in insertion order.
InvoiceData(t) ==
    [invoice_number |-> extraction_invoice_number(t),
     issue_date |-> extraction_issue_date(t),
     project_name |-> extraction_project_name(t),
     total_amount |-> extraction_amount(t)]

\* The except clause of extract_invoice_data that handles an exception.
ExtractHandler(e) ==
    CASE e = "FileNotFoundError" -> "extract:FileNotFoundError"
      [] e = "FileDataError" -> "extract:FileDataError"
      [] OTHER -> "extract:Exception"

\* The except clause of traverse_pdf_files that handles an exception.
TraverseHandler(e) ==
    CASE e = "FileNotFoundError" -> "traverse:FileNotFoundError"
      [] e = "PermissionError" -> "traverse:PermissionError"
      [] OTHER -> "traverse:Exception"

Header == <<"filename", "invoice_number", "issue_date", "project_name", "total_amount">>

\* [filename] + list(invoice_data.values())
Row(entry) ==
    <<entry[1], entry[2].invoice_number, entry[2].issue_date,
      entry[2].project_name, entry[2].total_amount>>

Rows(data) == [i \in 1 .. Len(data) |-> Row(data[i])]

InitMain ==
    /\ text = << >>
    /\ ret = None
    /\ branch = "main"
    /\ pc = "main"
    /\ dir_exists \in BOOLEAN
    /\ files \in Listings(MaxFiles)
    /\ (~dir_exists => files = << >>)
    /\ idx = 0
    /\ pdf_data = << >>
    /\ processed = << >>
    /\ exc = None
    /\ excel = None
    /\ console = << >>

\* main, lines 298-313, the document folder missing.
MainNoDocumentDir ==
    /\ pc = "main"
    /\ ~dir_exists
    /\ exc' = Some([type |-> "FileNotFoundError", file |-> << >>])
    /\ pc' = "except"
    /\ UNCHANGED <<text, ret, branch, files, dir_exists, idx, pdf_data,
                   processed, excel, console>>

\* main, lines 298-314: the call of traverse_pdf_files.
MainCallTraverse ==
    /\ pc = "main"
    /\ dir_exists
    /\ pdf_data' = << >>
    /\ idx' = 1
    /\ pc' = "traverse"
    /\ UNCHANGED <<text, ret, branch, files, dir_exists, processed, exc,
                   excel, console>>

\* One turn of the for loop on a name that does not end with ".pdf".
LoopSkip ==
    /\ pc = "traverse"
    /\ idx <= Len(files)
    /\ ~IsPdf(idx)
    /\ idx' = idx + 1
    /\ UNCHANGED <<text, ret, branch, pc, files, dir_exists, pdf_data,
                   processed, exc, excel, console>>

\* One turn of the for loop: extract_invoice_data returns the dict.
LoopExtract ==
    /\ pc = "traverse"
    /\ idx <= Len(files)
    /\ IsPdf(idx)
    /\ files[idx].open = "ok"
    /\ processed' = Append(processed, Filename(idx))
    /\ pdf_data' = Append(pdf_data, <<Filename(idx), InvoiceData(files[idx].text)>>)
    /\ idx' = idx + 1
    /\ UNCHANGED <<text, ret, branch, pc, files, dir_exists, exc, excel, console>>

\* LoopRaise with the exception swallowed: the loop goes on to the next file.
LoopRaiseMutSkip ==
    /\ pc = "traverse"
    /\ idx <= Len(files)
    /\ IsPdf(idx)
    /\ files[idx].open # "ok"
    /\ processed' = Append(processed, Filename(idx))
    /\ console' = console \o <<ExtractHandler(files[idx].open),
                              TraverseHandler(files[idx].open)>>
    /\ idx' = idx + 1
    /\ UNCHANGED <<text, ret, branch, pc, files, dir_exists, pdf_data, exc, excel>>

\* LoopRaise with the exception swallowed: the loop returns what it has.
LoopRaiseMutReturn ==
    /\ pc = "traverse"
    /\ idx <= Len(files)
    /\ IsPdf(idx)
    /\ files[idx].open # "ok"
    /\ processed' = Append(processed, Filename(idx))
    /\ console' = console \o <<ExtractHandler(files[idx].open),
                              TraverseHandler(files[idx].open)>>
    /\ pc' = "write"
    /\ UNCHANGED <<text, ret, branch, files, dir_exists, idx, pdf_data, exc, excel>>

\* One turn of the for loop: extract_invoice_data raises; its except clause
\* prints and re-raises, the loop's except clause prints and re-raises, and
\* the exception leaves traverse_pdf_files for main's except clause.
LoopRaise ==
    /\ pc = "traverse"
    /\ idx <= Len(files)
    /\ IsPdf(idx)
    /\ files[idx].open # "ok"
    /\ processed' = Append(processed, Filename(idx))
    /\ console' = console \o <<ExtractHandler(files[idx].open),
                              TraverseHandler(files[idx].open)>>
    /\ exc' = Some([type |-> files[idx].open, file |-> Filename(idx)])
    /\ pc' = "except"
    /\ UNCHANGED <<text, ret, branch, files, dir_exists, idx, pdf_data, excel>>

\* The for loop is over: return pdf_data.
LoopReturn ==
    /\ pc = "traverse"
    /\ idx > Len(files)
    /\ pc' = "write"
    /\ UNCHANGED <<text, ret, branch, files, dir_exists, idx, pdf_data,
                   processed, exc, excel, console>>

\* main, lines 315-316: write_to_excel saves the workbook.
WriteToExcel ==
    /\ pc = "write"
    /\ excel' = Some(<<Header>> \o Rows(pdf_data))
    /\ console' = Append(console, "saved")
    /\ pc' = "input"
    /\ UNCHANGED <<text, ret, branch, files, dir_exists, idx, pdf_data,
                   processed, exc>>

\* main, line 315: wb.save(excel_path) raises (the path cannot be written).
WriteToExcelRaise ==
    /\ pc = "write"
    /\ exc' = Some([type |-> "OSError", file |-> << >>])
    /\ pc' = "except"
    /\ UNCHANGED <<text, ret, branch, files, dir_exists, idx, pdf_data,
                   processed, excel, console>>

\* main, lines 317-318.
MainExcept ==
    /\ pc = "except"
    /\ console' = Append(console, "main:Exception")
    /\ pc' = "input"
    /\ UNCHANGED <<text, ret, branch, files, dir_exists, idx, pdf_data,
                   processed, exc, excel>>

\* main, line 319.
MainInput ==
    /\ pc = "input"
    /\ pc' = "exit"
    /\ UNCHANGED <<text, ret, branch, files, dir_exists, idx, pdf_data,
                   processed, exc, excel, console>>

Next ==
    \/ MainNoDocumentDir
    \/ MainCallTraverse
    \/ LoopSkip
    \/ LoopExtract
    \/ LoopRaise
    \/ LoopReturn
    \/ WriteToExcel
    \/ WriteToExcelRaise
    \/ MainExcept
    \/ MainInput

Spec == InitMain /\ [][Next]_vars

-----------------------------------------------------------------------------
(* Patterns read declaratively: every way a text can be read as a sequence  *)
(* of pieces, with no order of attempts.  A reading is the position after   *)
(* the pieces read so far and the characters kept from them.                *)

DigitChars == CH_ZERO .. CH_NINE
WsChars == {CH_SPACE, CH_LF, CH_IDEOSPACE}
SepChars == WsChars \cup {CH_COLON, CH_FWCOLON}
CurrencyChars == {CH_YEN, CH_FWYEN}

RdStart(p) == { [pos |-> p, out |-> << >>] }

\* Between lo and hi characters of cs.
RdMany(t, S, cs, lo, hi, keep) ==
    UNION { { [pos |-> r.pos + n,
               out |-> IF keep THEN r.out \o Slice(t, r.pos, r.pos + n - 1)
                       ELSE r.out] :
              n \in { m \in lo .. hi :
                        /\ r.pos + m - 1 <= Len(t)
                        /\ \A k \in r.pos .. (r.pos + m - 1) : t[k] \in cs } } :
            r \in S }

FoldEq(a, b) ==
    \/ a = b
    \/ (a \in CH_UPPER_A .. CH_UPPER_Z /\ b = a + CaseOffset)
    \/ (b \in CH_UPPER_A .. CH_UPPER_Z /\ a = b + CaseOffset)

\* The word w, letter case ignored.
RdWord(t, S, w, keep) ==
    { [pos |-> r.pos + Len(w), out |-> IF keep THEN r.out \o w ELSE r.out] :
        r \in { x \in S :
                  /\ x.pos + Len(w) - 1 <= Len(t)
                  /\ \A k \in 1 .. Len(w) : FoldEq(t[x.pos + k - 1], w[k]) } }

RdWs(t, S) == RdMany(t, S, WsChars, 0, Len(t), FALSE)

Outs(S) == { r.out : r \in S }

MinOf(P) == CHOOSE p \in P : \A q \in P : p <= q

IsSubstring(u, t) ==
    \E p \in 1 .. (Len(t) + 1) : p + Len(u) - 1 <= Len(t) /\ Slice(t, p, p + Len(u) - 1) = u

IsPrefix(u, t) == Len(u) <= Len(t) /\ Slice(t, 1, Len(u)) = u

-----------------------------------------------------------------------------
(* C9 *)

\* The canonical forms of the dates that start at p: four digits, 年, one or
\* two digits, 月, one or two digits, 日, with any whitespace between, the
\* whitespace dropped.
DatesAt(t, p) ==
    LET y == RdWs(t, RdMany(t, RdStart(p), DigitChars, 4, 4, TRUE))
        n == RdWs(t, RdWord(t, y, <<CH_NIAN>>, TRUE))
        m == RdWs(t, RdMany(t, n, DigitChars, 1, 2, TRUE))
        u == RdWs(t, RdWord(t, m, <<CH_YUE>>, TRUE))
        d == RdWs(t, RdMany(t, u, DigitChars, 1, 2, TRUE))
    IN  Outs(RdWord(t, d, <<CH_RI>>, TRUE))

DatePositions(t) == { p \in 1 .. Len(t) : DatesAt(t, p) # {} }

\* C9: extraction_issue_date returns None iff the text holds no date, and
\* otherwise the first date of the text as year, 年, month, 月, day, 日 with
\* the whitespace removed and the numerals as they stand in the text.
C9_FirstDateCanonical ==
    pc = "done" =>
        IF DatePositions(text) = {} THEN ret = None
        ELSE /\ ret # None
             /\ DatesAt(text, MinOf(DatePositions(text))) = { ret[1] }

\* A text with two dates, the first written with whitespace and a one-digit
\* day, has been read.
C9_Witness ==
    /\ pc = "done"
    /\ ret # None
    /\ Cardinality(DatePositions(text)) >= 2
    /\ ~IsSubstring(ret[1], text)
    /\ ~IsDigit(ret[1][Len(ret[1]) - 2])

-----------------------------------------------------------------------------
(* C4, C5, C6 *)

\* A run of exactly n digits starts at p, with no digit on either side.
IsolatedDigits(t, p, n) ==
    /\ p >= 1 /\ p + n - 1 <= Len(t)
    /\ \A k \in p .. (p + n - 1) : t[k] \in DigitChars
    /\ (p > 1 => t[p - 1] \notin DigitChars)
    /\ (p + n <= Len(t) => t[p + n] \notin DigitChars)

IsolatedPositions(t, n) == { p \in 1 .. Len(t) : IsolatedDigits(t, p, n) }

\* The readings of a label and its separators from p on: 发票号码 or NO with
\* an optional period, then any colons and whitespace.
LabelsAt(t, p) ==
    LET cn == RdWord(t, RdStart(p), LabelInvoiceNumber, FALSE)
        no == RdWord(t, RdStart(p), LabelNO, FALSE)
        nodot == RdWord(t, no, <<CH_DOT>>, FALSE)
    IN  RdMany(t, cn \cup no \cup nodot, SepChars, 0, Len(t), FALSE)

\* The eight digits that follow a label and its separators at p, whatever
\* follows them.
LabeledAt(t, p) == Outs(RdMany(t, LabelsAt(t, p), DigitChars, 8, 8, TRUE))

LabeledPositions(t) == { p \in 1 .. Len(t) : LabeledAt(t, p) # {} }

\* The starts of the digit runs of exactly 8 digits that follow a label.
LabeledExactStarts(t) ==
    { r.pos : r \in UNION { LabelsAt(t, p) : p \in 1 .. Len(t) } }
        \cap IsolatedPositions(t, 8)

\* C4: a result of the labeled strategy is a digit run of exactly 8 digits
\* that follows a label and its separators, never the first 8 digits of a
\* longer run.
C4_LabeledRunIsExactly8 ==
    (pc = "done" /\ branch = "normal") =>
        \E q \in LabeledExactStarts(text) : ret = Some(Slice(text, q, q + 7))

\* A marker word lies wholly within positions lo..hi of t, case ignored.
MarkerWithin(t, lo, hi) ==
    \E w \in {MarkerFapiao, MarkerInvoice, MarkerNODot} :
        \E q \in Max(lo, 1) .. Min(hi, Len(t)) :
            /\ q + Len(w) - 1 <= Min(hi, Len(t))
            /\ \A k \in 1 .. Len(w) : FoldEq(t[q + k - 1], w[k])

\* The candidate at p has context: a marker from 20 characters before its
\* start to 20 characters after its end.
HasContext(t, p) == MarkerWithin(t, p - 20, p + 7 + 20)

\* C5: the third strategy is reached only when no isolated 20-digit run and
\* no labeled form exists; it returns the first isolated 8-digit run iff
\* that run has context, and None otherwise, whatever later runs there are.
C5_FirstCandidateOnly ==
    (pc = "done" /\ branch \in {"standalone", "none"}) =>
        LET runs == IsolatedPositions(text, 8)
        IN  /\ IsolatedPositions(text, 20) = {}
            /\ LabeledPositions(text) = {}
            /\ IF runs # {} /\ HasContext(text, MinOf(runs))
               THEN ret = Some(Slice(text, MinOf(runs), MinOf(runs) + 7))
               ELSE ret = None

\* None was returned although a later isolated 8-digit run has context.
C5_Witness ==
    /\ pc = "done"
    /\ branch = "none"
    /\ ret = None
    /\ \E p \in IsolatedPositions(text, 8) : HasContext(text, p)

\* C6: an isolated 20-digit run, when there is one, is returned verbatim
\* (the first of them); otherwise a labeled 8-digit form, when there is one,
\* is returned (the first of them), whatever bare runs the text holds.
C6_StrategyPriority ==
    pc = "done" =>
        LET runs == IsolatedPositions(text, 20)
            labeled == LabeledPositions(text)
        IN  /\ runs # {} => ret = Some(Slice(text, MinOf(runs), MinOf(runs) + 19))
            /\ (runs = {} /\ labeled # {}) =>
                   /\ ret # None
                   /\ LabeledAt(text, MinOf(labeled)) = { ret[1] }

\* A 20-digit run was returned from a text that holds a labeled number
\* before it.
C6_Witness ==
    /\ pc = "done"
    /\ branch = "electronic"
    /\ Len(ret[1]) = 20
    /\ LabeledExactStarts(text) # {}
    /\ MinOf(LabeledPositions(text)) < MinOf(IsolatedPositions(text, 20))

-----------------------------------------------------------------------------
(* C2, C3, C8 *)

\* The lines of t between line feeds, each without the whitespace around it.
LineBounds(t) ==
    LET breaks == { p \in 1 .. Len(t) : t[p] = CH_LF } \cup {0, Len(t) + 1}
    IN  { <<a, b>> \in breaks \X breaks :
            a < b /\ \A c \in breaks : ~(a < c /\ c < b) }

NumLines(t) == Cardinality(LineBounds(t))

\* The k-th line: the one with k - 1 lines before it.
TrimmedLine(t, k) ==
    LET ab == CHOOSE x \in LineBounds(t) :
                  Cardinality({ y \in LineBounds(t) : y[1] < x[1] }) = k - 1
        inner == { p \in (ab[1] + 1) .. (ab[2] - 1) : t[p] \notin WsChars }
    IN  IF inner = {} THEN << >>
        ELSE Slice(t, MinOf(inner), CHOOSE p \in inner : \A q \in inner : q <= p)

\* Display width: one per character and one more per non-ASCII character.
DisplayWidth(l) == Len(l) + Cardinality({ k \in 1 .. Len(l) : l[k] > 127 })

StarLine(t, k) == TrimmedLine(t, k) # << >> /\ TrimmedLine(t, k)[1] = CH_STAR

MarkerLine(t, k) ==
    /\ TrimmedLine(t, k) # << >>
    /\ TrimmedLine(t, k)[1] \in {CH_STAR} \cup CurrencyChars

StarLines(t) == { k \in 1 .. NumLines(t) : StarLine(t, k) }

\* Lines a..b joined by single spaces.
RECURSIVE JoinedLines(_, _, _)
JoinedLines(t, a, b) ==
    IF a > b THEN << >>
    ELSE IF a = b THEN TrimmedLine(t, a)
    ELSE TrimmedLine(t, a) \o <<CH_SPACE>> \o JoinedLines(t, a + 1, b)

\* C2: after the first line that starts with '*', the scan stops at the
\* first later line that starts with '*', U+00A5 or U+FFE5, whatever its
\* width, and that line is not part of the result.
C2_StopsAtMarkerLine ==
    (pc = "done" /\ StarLines(text) # {}) =>
        LET s == MinOf(StarLines(text))
            K == { k \in (s + 1) .. NumLines(text) : MarkerLine(text, k) }
        IN  K # {} =>
                \E e \in s .. (MinOf(K) - 1) : ret = JoinedLines(text, s, e)

\* C3: when the first line that starts with '*' is narrower than 22, the
\* result is that line alone.
C3_ShortStarLineAlone ==
    (pc = "done" /\ StarLines(text) # {}) =>
        LET s == MinOf(StarLines(text))
        IN  DisplayWidth(TrimmedLine(text, s)) < 22 => ret = TrimmedLine(text, s)

\* C8: in the section, the lines up to the first line that is a marker line
\* or narrower than 22 are all appended (a line of width 22 too); when that
\* line is a narrow line without marker the scan ends there, the line is
\* left out, and nothing after it is appended.
C8_ContinuesWhileWide ==
    (pc = "done" /\ StarLines(text) # {}) =>
        LET s == MinOf(StarLines(text))
            T == { k \in (s + 1) .. NumLines(text) :
                     MarkerLine(text, k) \/ DisplayWidth(TrimmedLine(text, k)) < 22 }
            m == IF T = {} THEN NumLines(text) + 1 ELSE MinOf(T)
        IN  IF m <= NumLines(text) /\ MarkerLine(text, m)
            THEN IsPrefix(JoinedLines(text, s, m - 1), ret)
            ELSE ret = JoinedLines(text, s, m - 1)

\* A line of width exactly 22 was appended, and the scan ended at the narrow
\* line after it although a wide line follows.
C8_Witness ==
    /\ pc = "done"
    /\ StarLines(text) # {}
    /\ LET s == MinOf(StarLines(text))
       IN  /\ s + 3 <= NumLines(text)
           /\ ~MarkerLine(text, s + 1)
           /\ DisplayWidth(TrimmedLine(text, s + 1)) = 22
           /\ Len(TrimmedLine(text, s + 1)) < 22
           /\ ~MarkerLine(text, s + 2)
           /\ DisplayWidth(TrimmedLine(text, s + 2)) = 21
           /\ ~MarkerLine(text, s + 3)
           /\ DisplayWidth(TrimmedLine(text, s + 3)) >= 22
           /\ ret = JoinedLines(text, s, s + 1)

-----------------------------------------------------------------------------
(* C7 *)

\* The amounts tagged at p: a currency marker, any whitespace, one or more
\* digits, a point and two digits; the marker and the whitespace dropped.
TaggedAt(t, p) ==
    LET c == RdWs(t, RdMany(t, RdStart(p), CurrencyChars, 1, 1, FALSE))
        i == RdMany(t, c, DigitChars, 1, Len(t), TRUE)
        d == RdWord(t, i, <<CH_DOT>>, TRUE)
    IN  Outs(RdMany(t, d, DigitChars, 2, 2, TRUE))

TaggedPositions(t) == { p \in 1 .. Len(t) : TaggedAt(t, p) # {} }

\* The k-th tagged position in document order.
TaggedNth(t, k) ==
    CHOOSE p \in TaggedPositions(t) :
        Cardinality({ q \in TaggedPositions(t) : q < p }) = k - 1

RECURSIVE Pow10(_)
Pow10(n) == IF n = 0 THEN 1 ELSE 10 * Pow10(n - 1)

\* The value of digits '.' two digits, in hundredths.
Hundredths(a) ==
    LET ds == SelectSeq(a, LAMBDA c : c # CH_DOT)
        digit(k) == ds[k] - CH_ZERO
        weight(k) == Pow10(Len(ds) - k)
        RECURSIVE sum(_)
        sum(k) == IF k = 0 THEN 0 ELSE sum(k - 1) + digit(k) * weight(k)
    IN  sum(Len(ds))

ValueAt(t, p) == Hundredths(CHOOSE a \in TaggedAt(t, p) : TRUE)

\* C7: with no tagged amount the result is None, with one it is that
\* amount, with two it is None, with three or more it is the third.
C7_ThirdByPosition ==
    pc = "done" =>
        LET n == Cardinality(TaggedPositions(text))
        IN  CASE n = 0 -> ret = None
              [] n = 1 -> ret = Some(ValueAt(text, TaggedNth(text, 1)))
              [] n = 2 -> ret = None
              [] OTHER -> ret = Some(ValueAt(text, TaggedNth(text, 3)))

\* Four amounts were found and the third, which is neither the last nor the
\* largest, was returned.
C7_Witness ==
    /\ pc = "done"
    /\ Cardinality(TaggedPositions(text)) = 4
    /\ ret = Some(ValueAt(text, TaggedNth(text, 3)))
    /\ ValueAt(text, TaggedNth(text, 3)) < ValueAt(text, TaggedNth(text, 4))
    /\ ValueAt(text, TaggedNth(text, 3)) < ValueAt(text, TaggedNth(text, 1))

-----------------------------------------------------------------------------
(* C1, C10 *)

PdfIndices == { i \in 1 .. Len(files) : files[i].ext = ".pdf" }

FailingIndices == { i \in PdfIndices : files[i].open # "ok" }

\* The names of the documents among files[1..n], in listing order.
RECURSIVE DocNames(_)
DocNames(n) ==
    IF n = 0 THEN << >>
    ELSE IF n \in PdfIndices THEN Append(DocNames(n - 1), <<n, files[n].ext>>)
    ELSE DocNames(n - 1)

EntryNames(data) == [i \in 1 .. Len(data) |-> data[i][1]]

\* C1: when document k is the first whose text cannot be acquired, no later
\* document is ever passed to the extractor, the error reaches main, and the
\* result list holds one entry for each document before k, in listing
\* order, and none for k or a later one; the loop is never left normally.
C1_FailFastInOrder ==
    FailingIndices # {} =>
        LET k == MinOf(FailingIndices)
        IN  /\ IsPrefix(processed, DocNames(k))
            /\ IsPrefix(EntryNames(pdf_data), DocNames(k - 1))
            /\ \A j \in 1 .. Len(pdf_data) :
                   pdf_data[j][2] = InvoiceData(files[pdf_data[j][1][1]].text)
            /\ pc # "write"
            /\ pc \in {"except", "input", "exit"} => exc # None
            /\ exc # None =>
                   /\ exc = Some([type |-> files[k].open, file |-> <<k, files[k].ext>>])
                   /\ processed = DocNames(k)
                   /\ EntryNames(pdf_data) = DocNames(k - 1)

\* The run ended on the error of a document that has a document before it
\* and a document after it.
C1_Witness ==
    /\ pc = "exit"
    /\ exc # None
    /\ FailingIndices # {}
    /\ pdf_data # << >>
    /\ \E i \in PdfIndices : i > MinOf(FailingIndices) /\ files[i].open = "ok"

\* The row of the listing's i-th file.
RowOf(i) ==
    <<<<i, files[i].ext>>,
      InvoiceData(files[i].text).invoice_number,
      InvoiceData(files[i].text).issue_date,
      InvoiceData(files[i].text).project_name,
      InvoiceData(files[i].text).total_amount>>

RECURSIVE DocRows(_)
DocRows(n) ==
    IF n = 0 THEN << >>
    ELSE IF n \in PdfIndices THEN Append(DocRows(n - 1), RowOf(n))
    ELSE DocRows(n - 1)

\* C10: a report is saved only when every document of the listing was
\* processed, and it then holds a row for each; when a document fails, the
\* run ends with the error reported by main and without a report.
C10_ReportOnlyAfterAll ==
    /\ excel # None =>
           /\ FailingIndices = {}
           /\ processed = DocNames(Len(files))
           /\ excel = Some(<<Header>> \o DocRows(Len(files)))
    /\ (FailingIndices # {} /\ pc \in {"input", "exit"}) =>
           /\ excel = None
           /\ exc # None
           /\ exc[1].file = <<MinOf(FailingIndices), ".pdf">>
           /\ \E j \in 1 .. Len(console) : console[j] = "main:Exception"
           /\ \A j \in 1 .. Len(console) : console[j] # "saved"

\* A run ended without a report although entries had been collected before
\* the failing document.
C10_Witness ==
    /\ pc = "exit"
    /\ FailingIndices # {}
    /\ pdf_data # << >>
    /\ excel = None
    /\ console[Len(console)] = "main:Exception"

=============================================================================
